---------------------------- MODULE Spec2Model ----------------------------
(***************************************************************************)
(* State-machine model of src/_stbt/stbt_run.py (Python 2): the three      *)
(* context managers sane_unicode_and_exception_handling, video and         *)
(* tracing, the capture helper _save_screenshot and load_test_function.    *)
(*                                                                         *)
(* One process runs one test:                                              *)
(*     with sane_unicode_and_exception_handling(script):                   *)
(*         test_function = load_test_function(script, args)                *)
(*         with video(args, dut), tracing(save_trace, test_function):      *)
(*             test_function.call()                                        *)
(* The nesting itself is not part of stbt_run.py; it follows the control   *)
(* flow of spec.md section 2 and is isolated in Yield and After.           *)
(*                                                                         *)
(* A second specification, LoadSpec, is a resolver session: one process   *)
(* that calls load_test_function several times, on any identifiers, with   *)
(* sys.path and sys.modules carried from one call to the next.             *)
(*                                                                         *)
(* A condition (Python exception) is a record; NoExc stands for "nothing   *)
(* is being raised".  exc is the condition in flight between two steps.    *)
(***************************************************************************)
EXTENDS Naturals, Sequences, FiniteSets

VARIABLES
    pc,            \* position of the single thread of control
    args,          \* parsed options: save_screenshot, save_thumbnail
    script,        \* the test identifier given on the command line
    test_function, \* the _TestFunction returned by load_test_function
    sys_argv,      \* sys.argv
    sys_path,      \* sys.path
    sys_modules,   \* sys.modules: module name -> the file it was loaded from
    imports,       \* module files whose top-level code ran, with the sys.argv they saw
    loads,         \* one record per load_test_function call of a resolver session
    exc,           \* the condition propagating between steps, or NoExc
    callOutcome,   \* what test_function.call() did: "none", "returned", "raised"
    callExc,       \* the condition the callable raised (NoExc otherwise)
    videoBody,     \* how the body of video() ended: "none", "returned", "raised"
    videoExc,      \* the condition thrown into video() at its yield (NoExc otherwise)
    dutHeld,       \* the DUT scope is entered and not yet exited
    dutEnters,     \* number of dut.__enter__ calls
    dutExits,      \* number of dut.__exit__ calls
    captures,      \* one record per _save_screenshot invocation
    files,         \* artifacts written by cv2.imwrite, in order
    out,           \* writes to sys.stdout / sys.stderr, in order
    sinkMade,      \* new_state_sender has returned the sink
    sink,          \* calls received by the trace sink, in order
    absfilename,   \* tracing(): os.path.abspath(test_function.filename)
    hook,          \* sys.settrace hook currently installed
    hookInstalls,  \* number of sys.settrace(tracefunc) calls
    frames,        \* interpreter frames of the running callable
    events,        \* interpreter events raised while the callable ran
    exitCode       \* <<>> while the process runs, <<status>> once it has ended

vars == <<pc, args, script, test_function, sys_argv, sys_path, sys_modules,
          imports, loads, exc,
          callOutcome, callExc, videoBody, videoExc, dutHeld, dutEnters, dutExits,
          captures, files, out, sinkMade, sink, absfilename, hook,
          hookInstalls, frames, events, exitCode>>

----------------------------------------------------------------------------
(* Bounds of the model *)

\* "call" and "line" events observed during one run of the callable
MaxEvents == 3
\* load_test_function calls in one resolver session
MaxLoads == 4

----------------------------------------------------------------------------
(* Conditions and the class hierarchy *)

NoExc == [cls |-> "none", t |-> "none", v |-> "", code |-> 0, shot |-> "none", origin |-> "none"]

\* direct base class of each condition class used in the model
Parent(cls) ==
    CASE cls = "AssertionError"    -> "Exception"
      [] cls = "MatchTimeout"      -> "UITestFailure"
      [] cls = "UITestFailure"     -> "Exception"
      [] cls = "ValueError"        -> "Exception"
      [] cls = "RuntimeError"      -> "Exception"
      [] cls = "IOError"           -> "Exception"
      [] cls = "ImportError"       -> "Exception"
      [] cls = "AttributeError"    -> "Exception"
      [] cls = "Exception"         -> "BaseException"
      [] cls = "SystemExit"        -> "BaseException"
      [] cls = "KeyboardInterrupt" -> "BaseException"
      [] OTHER                     -> "object"

RECURSIVE IsInstance(_, _)
IsInstance(cls, base) ==
    IF cls = base THEN TRUE
    ELSE IF cls \in {"object", "none"} THEN FALSE
    ELSE IsInstance(Parent(cls), base)

\* conditions the test callable can end with: AssertionError(),
\* AssertionError(0), MatchTimeout("boom") carrying a screenshot, ValueError()
\* and SystemExit(3)
TestConds ==
    { [cls |-> "AssertionError", t |-> "none", v |-> "",     code |-> 0, shot |-> "none", origin |-> "test"],
      [cls |-> "AssertionError", t |-> "int",  v |-> "0",    code |-> 0, shot |-> "none", origin |-> "test"],
      [cls |-> "MatchTimeout",   t |-> "str",  v |-> "boom", code |-> 0, shot |-> "F_exc", origin |-> "test"],
      [cls |-> "ValueError",     t |-> "none", v |-> "",     code |-> 0, shot |-> "none", origin |-> "test"],
      [cls |-> "SystemExit",     t |-> "int",  v |-> "3",    code |-> 3, shot |-> "none", origin |-> "test"] }

\* what a failing frame access or file write raises inside _save_screenshot
CaptureErr == [cls |-> "RuntimeError", t |-> "str", v |-> "capture", code |-> 0, shot |-> "none", origin |-> "capture"]
\* what a failing call of the trace sink raises
SinkErr == [cls |-> "IOError", t |-> "str", v |-> "sink", code |-> 0, shot |-> "none", origin |-> "sink"]

----------------------------------------------------------------------------
(* Paths, identifiers and the file system seen by load_test_function *)

\* A path or identifier is a sequence of tokens: path components, with "/"
\* first for an absolute path, and "::" for the separator of an identifier.
Cwd == <<"/", "home">>
LibDir == <<"/", "usr", "lib">>
LibFile == LibDir \o <<"lib.py">>

\* os.path.abspath
abspath(p) == IF p # <<>> /\ p[1] = "/" THEN p ELSE Cwd \o p

\* os.path.split / os.path.dirname
dirname(p) == IF p = <<>> THEN <<>> ELSE SubSeq(p, 1, Len(p) - 1)
basename(p) == IF p = <<>> THEN "" ELSE p[Len(p)]

\* os.path.splitext on the file names of the model
splitext(b) ==
    CASE b = "test.py"  -> <<"test", ".py">>
      [] b = "gone.py"  -> <<"gone", ".py">>
      [] b = "bad.py"   -> <<"bad", ".py">>
      [] b = "test.txt" -> <<"test", ".txt">>
      [] OTHER          -> <<b, "">>

\* The source files that exist and are readable.  Directory t holds the
\* test script, u a second script of the same name, x is empty.
FS == { Cwd \o <<"t", "test.py">>, Cwd \o <<"t", "test.txt">>,
        Cwd \o <<"t", "bad.py">>, Cwd \o <<"u", "test.py">>, LibFile }

\* what the top-level code of `file` raises when the file is imported
ModuleErr == [cls |-> "ValueError", t |-> "str", v |-> "toplevel", code |-> 0, shot |-> "none", origin |-> "import"]
ImportRaises(file) == file = Cwd \o <<"t", "bad.py">>

\* the module attribute `name` of the module loaded from `file`: a function,
\* an integer, a class (callable, without func_code), or missing
AttrKind(file, name) ==
    IF file \in {Cwd \o <<"t", "test.py">>, Cwd \o <<"u", "test.py">>} /\ name = <<"test_x">>
    THEN "function"
    ELSE IF file = Cwd \o <<"t", "test.py">> /\ name = <<"count">> THEN "int"
    ELSE IF file = Cwd \o <<"t", "test.py">> /\ name = <<"Page">> THEN "class"
    ELSE "missing"

\* co_firstlineno of the functions of the model
FirstLine(file, name) == IF file = Cwd \o <<"u", "test.py">> THEN 7 ELSE 3

\* (mutant) the identifier split on its last '::'
FirstSep_Last(s) == CHOOSE i \in 1..Len(s) : s[i] = "::" /\ \A j \in (i + 1)..Len(s) : s[j] # "::"

\* '::' in script, and the index of the first '::'
HasSep(s) == \E i \in 1..Len(s) : s[i] = "::"
FirstSep(s) == CHOOSE i \in 1..Len(s) : s[i] = "::" /\ \A j \in 1..(i - 1) : s[j] # "::"

\* the file name of module `m`
ModFile(m) ==
    CASE m = "test" -> "test.py"
      [] m = "gone" -> "gone.py"
      [] m = "bad"  -> "bad.py"
      [] OTHER      -> "?"

\* the search of __import__ for a module that is not loaded yet: the first
\* directory of the search path that holds the module's file, <<>> when none does
RECURSIVE FindModule(_, _)
FindModule(m, path) ==
    IF path = <<>> THEN <<>>
    ELSE IF (path[1] \o <<ModFile(m)>>) \in FS THEN path[1] \o <<ModFile(m)>>
    ELSE FindModule(m, Tail(path))

\* (mutant) an import that searches the path again for a module already loaded
ImportModule_NoCache(m, path, modules) == FindModule(m, path)

\* __import__(module_name) (line 60): a module already in sys.modules is
\* returned as it is, otherwise the search path decides
ImportModule(m, path, modules) ==
    IF m \in DOMAIN modules THEN modules[m] ELSE FindModule(m, path)

\* sys.modules after module m was loaded from file
Loaded(modules, m, file) ==
    [n \in DOMAIN modules \cup {m} |-> IF n = m THEN file ELSE modules[n]]

NoTestFunction ==
    [script |-> <<>>, filename |-> <<>>, funcname |-> <<>>, line |-> 0,
     call |-> [kind |-> "none", file |-> <<>>]]

ImportErr == [cls |-> "ImportError", t |-> "str", v |-> "import", code |-> 0, shot |-> "none", origin |-> "load"]
AttributeErr == [cls |-> "AttributeError", t |-> "str", v |-> "attr", code |-> 0, shot |-> "none", origin |-> "load"]
ExecfileErr == [cls |-> "IOError", t |-> "str", v |-> "execfile", code |-> 0, shot |-> "none", origin |-> "execfile"]

\* (mutant) the script's directory appended to the search path
SearchPath_Append(module_dir, path) == path \o <<abspath(module_dir)>>

\* the search path assigned at line 59
SearchPath(module_dir, path) == <<abspath(module_dir)>> \o path

\* _import_by_filename (lines 54-60).
\*   raised    the condition that left the function, or NoExc
\*   path      sys.path afterwards
\*   file      the file of the module returned
\*   modules   sys.modules afterwards
\*   ran       the files whose top-level code the import executed
import_by_filename(filename_, path, modules) ==
    LET module_dir  == dirname(filename_)
        module_file == basename(filename_)
        module_name == splitext(module_file)[1]
        module_ext  == splitext(module_file)[2]
        newpath     == SearchPath(module_dir, path)
        cached      == module_name \in DOMAIN modules
        found       == ImportModule(module_name, newpath, modules)
    IN  IF module_ext # ".py"
        THEN [raised |-> ImportErr, path |-> path, file |-> <<>>,
              modules |-> modules, ran |-> <<>>]
        ELSE IF found = <<>>
        THEN [raised |-> ImportErr, path |-> newpath, file |-> <<>>,
              modules |-> modules, ran |-> <<>>]
        ELSE IF ~cached /\ ImportRaises(found)
        THEN [raised |-> ModuleErr, path |-> newpath, file |-> <<>>,
              modules |-> modules, ran |-> <<found>>]
        ELSE [raised |-> NoExc, path |-> newpath, file |-> found,
              modules |-> Loaded(modules, module_name, found),
              ran |-> IF cached THEN <<>> ELSE <<found>>]

\* the `filename` field of a whole-file _TestFunction (line 101): the
\* identifier as given, not the absolute path computed at line 77
WholeFileName(script_, filename) == script_

\* load_test_function (lines 69-101), after sys.argv was assigned:
\* [raised, tf, path, modules, ran]
load_test_function(s, path, modules) ==
    IF HasSep(s)
    THEN LET filename == SubSeq(s, 1, FirstSep(s) - 1)
             funcname == SubSeq(s, FirstSep(s) + 1, Len(s))
             imp      == import_by_filename(filename, path, modules)
         IN  IF imp.raised # NoExc
             THEN [raised |-> imp.raised, tf |-> NoTestFunction, path |-> imp.path,
                   modules |-> imp.modules, ran |-> imp.ran]
             ELSE IF AttrKind(imp.file, funcname) # "function"
             THEN [raised |-> AttributeErr, tf |-> NoTestFunction, path |-> imp.path,
                   modules |-> imp.modules, ran |-> imp.ran]
             ELSE [raised |-> NoExc,
                   tf |-> [script |-> s, filename |-> filename, funcname |-> funcname,
                           line |-> FirstLine(imp.file, funcname),
                           call |-> [kind |-> "function", file |-> imp.file]],
                   path |-> imp.path, modules |-> imp.modules, ran |-> imp.ran]
    ELSE LET filename == abspath(s)
         IN  [raised |-> NoExc,
              tf |-> [script |-> s, filename |-> WholeFileName(s, filename),
                      funcname |-> <<>>, line |-> 1,
                      call |-> [kind |-> "fn", file |-> filename]],
              path |-> path, modules |-> modules, ran |-> <<>>]

\* (mutant) the identifier left out of the argument vector
Argv_ArgsOnly(script_, args_) == args_

\* sys.argv = [script] + args (line 68)
Argv(script_, args_) == <<script_>> \o args_

\* sys.path.insert(0, os.path.dirname(filename)) in fn (line 98)
FnPath(filename, path) == <<dirname(filename)>> \o path

----------------------------------------------------------------------------
(* _save_screenshot *)

\* What the DUT and the image library do during one capture: whether a live
\* display exists and has a last-used frame, and whether get_frame(), the
\* write of screenshot.png and the resize/write of thumbnail.jpg succeed.
CaptureEnvs ==
    [display : {"none", "nolast", "last"}, get_frame_ok : BOOLEAN,
     png_ok : BOOLEAN, jpg_ok : BOOLEAN]

\* getattr(exception, "screenshot", None)
AttachedShot(exception) == exception.shot

\* (mutant) _save_screenshot without the early return of lines 14-15
SaveScreenshot_NoEarlyReturn(exception, save_jpg, save_png, env) ==
    LET s1 == AttachedShot(exception)
        useLast == s1 = "none" /\ env.display # "none"
        s2 == IF useLast
              THEN (IF env.display = "last" THEN "F_last" ELSE "none")
              ELSE s1
        useFresh == s2 = "none"
        s3 == IF useFresh
              THEN (IF env.get_frame_ok THEN "F_fresh" ELSE "none")
              ELSE s2
        queried == (IF useLast THEN <<"last_used_frame">> ELSE <<>>)
                   \o (IF useFresh THEN <<"get_frame">> ELSE <<>>)
        pngFile == [name |-> "screenshot.png", frame |-> s3]
        jpgFile == [name |-> "thumbnail.jpg", frame |-> s3]
        saved == "Saved screenshot to 'screenshot.png'."
    IN  IF useFresh /\ ~env.get_frame_ok
        THEN [attempted |-> save_jpg \/ save_png, queried |-> queried, frame |-> "none",
              writes |-> <<>>, stderr |-> <<>>, raised |-> CaptureErr]
        ELSE IF save_png /\ ~env.png_ok
        THEN [attempted |-> save_jpg \/ save_png, queried |-> queried, frame |-> s3,
              writes |-> <<>>, stderr |-> <<>>, raised |-> CaptureErr]
        ELSE IF save_jpg /\ ~env.jpg_ok
        THEN [attempted |-> save_jpg \/ save_png, queried |-> queried, frame |-> s3,
              writes |-> IF save_png THEN <<pngFile>> ELSE <<>>,
              stderr |-> IF save_png THEN <<saved>> ELSE <<>>,
              raised |-> CaptureErr]
        ELSE [attempted |-> save_jpg \/ save_png, queried |-> queried, frame |-> s3,
              writes |-> (IF save_png THEN <<pngFile>> ELSE <<>>)
                         \o (IF save_jpg THEN <<jpgFile>> ELSE <<>>),
              stderr |-> IF save_png THEN <<saved>> ELSE <<>>,
              raised |-> NoExc]

\* One invocation of _save_screenshot(dut, exception, save_jpg, save_png).
\*   queried   the frame sources asked, in order
\*   frame     the frame obtained ("none" when none was)
\*   writes    the artifacts cv2.imwrite produced, in order
\*   stderr    the lines written to sys.stderr
\*   raised    the condition that left the function, or NoExc
SaveScreenshot(exception, save_jpg, save_png, env) ==
    IF ~save_jpg /\ ~save_png
    THEN [attempted |-> FALSE, queried |-> <<>>, frame |-> "none",
          writes |-> <<>>, stderr |-> <<>>, raised |-> NoExc]
    ELSE
    LET s1 == AttachedShot(exception)
        useLast == s1 = "none" /\ env.display # "none"
        s2 == IF useLast
              THEN (IF env.display = "last" THEN "F_last" ELSE "none")
              ELSE s1
        useFresh == s2 = "none"
        s3 == IF useFresh
              THEN (IF env.get_frame_ok THEN "F_fresh" ELSE "none")
              ELSE s2
        queried == (IF useLast THEN <<"last_used_frame">> ELSE <<>>)
                   \o (IF useFresh THEN <<"get_frame">> ELSE <<>>)
        pngFile == [name |-> "screenshot.png", frame |-> s3]
        jpgFile == [name |-> "thumbnail.jpg", frame |-> s3]
        saved == "Saved screenshot to 'screenshot.png'."
    IN  IF useFresh /\ ~env.get_frame_ok
        THEN [attempted |-> TRUE, queried |-> queried, frame |-> "none",
              writes |-> <<>>, stderr |-> <<>>, raised |-> CaptureErr]
        ELSE IF save_png /\ ~env.png_ok
        THEN [attempted |-> TRUE, queried |-> queried, frame |-> s3,
              writes |-> <<>>, stderr |-> <<>>, raised |-> CaptureErr]
        ELSE IF save_jpg /\ ~env.jpg_ok
        THEN [attempted |-> TRUE, queried |-> queried, frame |-> s3,
              writes |-> IF save_png THEN <<pngFile>> ELSE <<>>,
              stderr |-> IF save_png THEN <<saved>> ELSE <<>>,
              raised |-> CaptureErr]
        ELSE [attempted |-> TRUE, queried |-> queried, frame |-> s3,
              writes |-> (IF save_png THEN <<pngFile>> ELSE <<>>)
                         \o (IF save_jpg THEN <<jpgFile>> ELSE <<>>),
              stderr |-> IF save_png THEN <<saved>> ELSE <<>>,
              raised |-> NoExc]

----------------------------------------------------------------------------
(* video() *)

\* the `exception` argument video() passes to _save_screenshot
VideoExceptionArg(e) == NoExc

\* (mutant) a bare except clause
VideoCatches_All(e) == TRUE

\* except Exception (line 40)
VideoCatches(e) == IsInstance(e.cls, "Exception")

\* the capture flags on the raise path (lines 43-44)
SaveJpgOnRaise(a) == a.save_thumbnail # "never"
SavePngOnRaise(a) == a.save_screenshot # "never"

\* (mutant) the png flag of the raise path used on the normal-return path
SavePngOnReturn_NotNever(a) == a.save_screenshot # "never"

\* the capture flags on the normal-return path (lines 50-51)
SaveJpgOnReturn(a) == a.save_thumbnail = "always"
SavePngOnReturn(a) == a.save_screenshot = "always"

\* The bare `raise` of line 47.  Python 2 re-raises the exception most
\* recently caught in the current frame: the handler of lines 45-46 runs in
\* video()'s own frame, so once it has caught a capture failure that failure
\* is what `raise` raises; the condition caught at line 40 is re-raised
\* only when the capture raised nothing.
BareRaise(caught, inner) == IF inner # NoExc THEN inner ELSE caught

\* (mutant) the else-branch guarded like the except-branch
ElseBranchSwallows(inner) == NoExc

\* What leaves the else-branch (lines 49-51): the capture is not guarded, so
\* a condition it raises propagates.
ElseBranchRaises(inner) == inner

----------------------------------------------------------------------------
(* tracing() *)

\* (mutant) `return tracefunc` indented under the `if` of line 149
TraceReturns_OnlyOnMatch(event, co_filename, abs) ==
    IF event = "line" /\ co_filename = abs THEN "tracefunc" ELSE "None"

\* tracefunc (lines 148-151): whether the event is forwarded to
\* _tracer.log_current_line, and the local trace function it returns
TraceForwards(event, co_filename, abs) == event = "line" /\ co_filename = abs
TraceReturns(event, co_filename, abs) == "tracefunc"

\* line numbers of the model's source files
Lines == {1, 2}
\* files whose code can run while the callable executes
CodeFiles(tf) == {tf.call.file, LibFile}

----------------------------------------------------------------------------
(* sane_unicode_and_exception_handling *)

\* except Exception as e (line 119)
SaneCatches(e) == IsInstance(e.cls, "Exception")

\* kitchen's exception_to_bytes: the text of the condition's argument
exception_to_bytes(e) == IF e.t = "none" THEN "" ELSE e.v

\* traceback.extract_tb(...)[-1][3]: the source text of the failing line
LastFrameText(e) == "assert x == 1"

\* (mutant) the fallback taken for every falsy message, the number 0 included
ErrorMessage_Falsy(e) ==
    IF (e.t = "none" \/ e.v \in {"", "0"}) /\ IsInstance(e.cls, "AssertionError")
    THEN LastFrameText(e)
    ELSE exception_to_bytes(e)

\* lines 120-122
ErrorMessage(e) ==
    IF exception_to_bytes(e) = "" /\ IsInstance(e.cls, "AssertionError")
    THEN LastFrameText(e)
    ELSE exception_to_bytes(e)

\* (mutant) the FAIL line written to the error stream
FailStream_Stderr == "stderr"

\* the stream the FAIL line is written to (line 123)
FailStream == "stdout"
\* the stream print_exc writes the stack trace to (line 133)
TraceStream == "stderr"

FailLine(s, e) ==
    [stream |-> FailStream, kind |-> "FAIL", script |-> s, cls |-> e.cls,
     msg |-> ErrorMessage(e)]
TraceBack(e) ==
    [stream |-> TraceStream, kind |-> "traceback", script |-> <<>>, cls |-> e.cls,
     msg |-> exception_to_bytes(e)]
SavedLine(text) ==
    [stream |-> "stderr", kind |-> "saved", script |-> <<>>, cls |-> "none",
     msg |-> text]

\* (mutant) only AssertionError counted as a test failure
ExitCodeFor_AssertOnly(e) ==
    IF IsInstance(e.cls, "AssertionError") THEN 1 ELSE 2

\* lines 136-139
ExitCodeFor(e) ==
    IF IsInstance(e.cls, "UITestFailure") \/ IsInstance(e.cls, "AssertionError")
    THEN 1 ELSE 2

\* The interpreter's own handling of a condition nobody caught: SystemExit
\* ends the process with its code, anything else with status 1.
UncaughtExit(e) == IF e.cls = "SystemExit" THEN e.code ELSE 1

----------------------------------------------------------------------------
(* The nesting of the managers (spec.md section 2, control flow) *)

\* where control goes when a manager yields to its body
Yield(cm) ==
    CASE cm = "sane"    -> "load"
      [] cm = "video"   -> "tracing_new"
      [] cm = "tracing" -> "call"

\* where control goes when a unit completes normally
After(unit) ==
    CASE unit = "load"    -> "video_enter"
      [] unit = "call"    -> "tracing_finally"
      [] unit = "tracing" -> "video_exit"
      [] unit = "video"   -> "sane_exit"

\* where a condition raised by a unit is handled next
Handler(unit) ==
    CASE unit = "load"    -> "sane_exit"
      [] unit = "call"    -> "tracing_finally"
      [] unit = "tracing" -> "video_exit"
      [] unit = "video"   -> "sane_exit"

----------------------------------------------------------------------------
(* Initial state *)

Opts == {"never", "on_failure", "always"}

\* the identifiers a run can be started with
Scripts ==
    { <<"t", "test.py">>,
      <<"t", "gone.py">>,
      <<"t", "test.py", "::", "test_x">>,
      <<"t", "test.txt", "::", "test_x">> }

\* the arguments that follow the identifier on the command line
ScriptArgs == { <<<<"a1">>>> }

Init ==
    /\ pc = "sane_enter"
    /\ args \in [save_screenshot : Opts, save_thumbnail : Opts, args : ScriptArgs]
    /\ script \in Scripts
    /\ test_function = NoTestFunction
    /\ sys_argv = <<<<"stbt-run">>>>
    /\ sys_path = <<LibDir>>
    /\ sys_modules = <<>>
    /\ imports = <<>>
    /\ loads = <<>>
    /\ exc = NoExc
    /\ callOutcome = "none"
    /\ callExc = NoExc
    /\ videoBody = "none"
    /\ videoExc = NoExc
    /\ dutHeld = FALSE
    /\ dutEnters = 0
    /\ dutExits = 0
    /\ captures = <<>>
    /\ files = <<>>
    /\ out = <<>>
    /\ sinkMade = FALSE
    /\ sink = <<>>
    /\ absfilename = <<>>
    /\ hook = FALSE
    /\ hookInstalls = 0
    /\ frames = <<>>
    /\ events = <<>>
    /\ exitCode = <<>>

----------------------------------------------------------------------------
(* Actions *)

\* one call received by the trace sink: `hooked` and `installs` are the state
\* of the process-wide hook when the call was made, `raised` is whether the
\* call raised instead of returning
SinkCall(op, file, line, raised) ==
    [op |-> op, file |-> file, line |-> line, hooked |-> hook,
     installs |-> hookInstalls, raised |-> raised]

\* the "call" and "line" events among the events so far
Steps == Cardinality({i \in 1..Len(events) : events[i].kind \in {"call", "line"}})

\* tracefunc invoked for one event: the calls it makes on the sink
Forwarded(event, file, line) ==
    IF TraceForwards(event, file, absfilename)
    THEN <<SinkCall("log_current_line", file, line, FALSE)>>
    ELSE <<>>

Top == frames[Len(frames)]

\* sane_unicode_and_exception_handling up to its yield (lines 111-118)
SaneEnter ==
    /\ pc = "sane_enter"
    /\ pc' = Yield("sane")
    /\ UNCHANGED <<args, script, test_function, sys_argv, sys_path,
                   sys_modules, imports, loads, exc, callOutcome, callExc,
                   videoBody, videoExc, dutHeld, dutEnters, dutExits,
                   captures, files, out, sinkMade, sink, absfilename, hook,
                   hookInstalls, frames, events, exitCode>>

\* load_test_function(script, args): sys.argv = [script] + args (line 68)
LoadSetArgv ==
    /\ pc = "load"
    /\ sys_argv' = Argv(script, args.args)
    /\ pc' = "load_resolve"
    /\ UNCHANGED <<args, script, test_function, sys_path, sys_modules,
                   imports, loads, exc, callOutcome, callExc, videoBody,
                   videoExc, dutHeld, dutEnters, dutExits, captures, files,
                   out, sinkMade, sink, absfilename, hook, hookInstalls,
                   frames, events, exitCode>>

\* load_test_function(script, args), lines 69-101: the identifier is
\* resolved; importing a module runs its top-level code
LoadTestFunction ==
    /\ pc = "load_resolve"
    /\ LET r == load_test_function(script, sys_path, sys_modules)
       IN  /\ sys_path' = r.path
           /\ sys_modules' = r.modules
           /\ imports' = imports \o [i \in 1..Len(r.ran) |->
                             [file |-> r.ran[i], argv |-> sys_argv, path |-> r.path]]
           /\ test_function' = r.tf
           /\ exc' = r.raised
           /\ pc' = IF r.raised = NoExc THEN After("load") ELSE Handler("load")
    /\ UNCHANGED <<args, script, sys_argv, loads, callOutcome, callExc,
                   videoBody, videoExc, dutHeld, dutEnters, dutExits,
                   captures, files, out, sinkMade, sink, absfilename, hook,
                   hookInstalls, frames, events, exitCode>>

\* video(): with stbt._set_dut_singleton(dut), dut (line 37), up to the yield
VideoEnter ==
    /\ pc = "video_enter"
    /\ dutHeld' = TRUE
    /\ dutEnters' = dutEnters + 1
    /\ pc' = Yield("video")
    /\ UNCHANGED <<args, script, test_function, sys_argv, sys_path,
                   sys_modules, imports, loads, exc, callOutcome, callExc,
                   videoBody, videoExc, dutExits, captures, files, out,
                   sinkMade, sink, absfilename, hook, hookInstalls, frames,
                   events, exitCode>>

\* tracing(): new_state_sender and abspath (lines 144-146)
TracingNewSender ==
    /\ pc = "tracing_new"
    /\ sinkMade' = TRUE
    /\ absfilename' = abspath(test_function.filename)
    /\ pc' = "tracing_start"
    /\ UNCHANGED <<args, script, test_function, sys_argv, sys_path,
                   sys_modules, imports, loads, exc, callOutcome, callExc,
                   videoBody, videoExc, dutHeld, dutEnters, dutExits,
                   captures, files, out, sink, hook, hookInstalls, frames,
                   events, exitCode>>

\* tracing(): _tracer.log_test_starting(test_function) (line 153); the call may raise
TracingLogStarting ==
    /\ pc = "tracing_start"
    /\ \E ok \in BOOLEAN :
          /\ sink' = Append(sink, SinkCall("log_test_starting", <<>>, 0, ~ok))
          /\ exc' = IF ok THEN NoExc ELSE SinkErr
          /\ pc' = IF ok THEN "tracing_settrace" ELSE Handler("tracing")
    /\ UNCHANGED <<args, script, test_function, sys_argv, sys_path,
                   sys_modules, imports, loads, callOutcome, callExc,
                   videoBody, videoExc, dutHeld, dutEnters, dutExits,
                   captures, files, out, sinkMade, absfilename, hook,
                   hookInstalls, frames, events, exitCode>>

\* tracing(): sys.settrace(tracefunc) and the yield (lines 154-157)
TracingSetTrace ==
    /\ pc = "tracing_settrace"
    /\ hook' = TRUE
    /\ hookInstalls' = hookInstalls + 1
    /\ pc' = Yield("tracing")
    /\ UNCHANGED <<args, script, test_function, sys_argv, sys_path,
                   sys_modules, imports, loads, exc, callOutcome, callExc,
                   videoBody, videoExc, dutHeld, dutEnters, dutExits,
                   captures, files, out, sinkMade, sink, absfilename,
                   frames, events, exitCode>>

\* test_function.call() is entered.  For a whole-file test this is fn
\* (lines 97-99): the script's directory is prepended to sys.path and
\* execfile opens the file.  The first frame of the script's code is created,
\* which the interpreter reports to the process-wide hook as a "call" event.
CallInvoke ==
    /\ pc = "call"
    /\ LET c == test_function.call
           isFn == c.kind = "fn"
           opens == ~isFn \/ c.file \in FS
       IN  /\ sys_path' = IF isFn THEN FnPath(c.file, sys_path) ELSE sys_path
           /\ events' = IF opens
                        THEN Append(events, [kind |-> "call", file |-> c.file, line |-> 1])
                        ELSE events
           /\ sink' = IF opens /\ hook THEN sink \o Forwarded("call", c.file, 1) ELSE sink
           /\ frames' = IF opens
                        THEN <<[file |-> c.file,
                                traced |-> hook /\ TraceReturns("call", c.file, absfilename) = "tracefunc"]>>
                        ELSE <<>>
           /\ callOutcome' = IF opens THEN "none" ELSE "raised"
           /\ callExc' = IF opens THEN NoExc ELSE ExecfileErr
           /\ exc' = IF opens THEN NoExc ELSE ExecfileErr
           /\ pc' = IF opens THEN "running" ELSE Handler("call")
    /\ UNCHANGED <<args, script, test_function, sys_argv, sys_modules,
                   imports, loads, videoBody, videoExc, dutHeld, dutEnters,
                   dutExits, captures, files, out, sinkMade, absfilename,
                   hook, hookInstalls, exitCode>>

\* the running code calls a function defined in file f: a "call" event goes
\* to the process-wide hook, whose result is the new frame's local trace function
InterpCall(f) ==
    /\ pc = "running"
    /\ frames # <<>>
    /\ Steps < MaxEvents
    /\ events' = Append(events, [kind |-> "call", file |-> f, line |-> 1])
    /\ sink' = IF hook THEN sink \o Forwarded("call", f, 1) ELSE sink
    /\ frames' = Append(frames,
                   [file |-> f,
                    traced |-> hook /\ TraceReturns("call", f, absfilename) = "tracefunc"])
    /\ UNCHANGED <<pc, args, script, test_function, sys_argv, sys_path,
                   sys_modules, imports, loads, exc, callOutcome, callExc,
                   videoBody, videoExc, dutHeld, dutEnters, dutExits,
                   captures, files, out, sinkMade, absfilename, hook,
                   hookInstalls, exitCode>>

\* the top frame reaches source line n: a "line" event goes to the frame's
\* local trace function, if it has one and tracing is on
InterpLine(n) ==
    /\ pc = "running"
    /\ frames # <<>>
    /\ Steps < MaxEvents
    /\ events' = Append(events, [kind |-> "line", file |-> Top.file, line |-> n])
    /\ sink' = IF hook /\ Top.traced THEN sink \o Forwarded("line", Top.file, n) ELSE sink
    /\ frames' = [frames EXCEPT ![Len(frames)].traced =
                     IF hook /\ Top.traced
                     THEN TraceReturns("line", Top.file, absfilename) = "tracefunc"
                     ELSE @]
    /\ UNCHANGED <<pc, args, script, test_function, sys_argv, sys_path,
                   sys_modules, imports, loads, exc, callOutcome, callExc,
                   videoBody, videoExc, dutHeld, dutEnters, dutExits,
                   captures, files, out, sinkMade, absfilename, hook,
                   hookInstalls, exitCode>>

\* the top frame returns: a "return" event goes to its local trace function
InterpReturn ==
    /\ pc = "running"
    /\ frames # <<>>
    /\ events' = Append(events, [kind |-> "return", file |-> Top.file, line |-> 2])
    /\ sink' = IF hook /\ Top.traced THEN sink \o Forwarded("return", Top.file, 2) ELSE sink
    /\ frames' = SubSeq(frames, 1, Len(frames) - 1)
    /\ UNCHANGED <<pc, args, script, test_function, sys_argv, sys_path,
                   sys_modules, imports, loads, exc, callOutcome, callExc,
                   videoBody, videoExc, dutHeld, dutEnters, dutExits,
                   captures, files, out, sinkMade, absfilename, hook,
                   hookInstalls, exitCode>>

\* test_function.call() returns normally
CallReturn ==
    /\ pc = "running"
    /\ frames = <<>>
    /\ callOutcome' = "returned"
    /\ pc' = After("call")
    /\ UNCHANGED <<args, script, test_function, sys_argv, sys_path,
                   sys_modules, imports, loads, exc, callExc, videoBody,
                   videoExc, dutHeld, dutEnters, dutExits, captures, files,
                   out, sinkMade, sink, absfilename, hook, hookInstalls,
                   frames, events, exitCode>>

\* the running code raises e and nothing in the script catches it: an
\* "exception" event goes to the top frame's local trace function and the
\* callable's frames unwind
CallRaise(e) ==
    /\ pc = "running"
    /\ frames # <<>>
    /\ events' = Append(events, [kind |-> "exception", file |-> Top.file, line |-> 2])
    /\ sink' = IF hook /\ Top.traced THEN sink \o Forwarded("exception", Top.file, 2) ELSE sink
    /\ frames' = <<>>
    /\ callOutcome' = "raised"
    /\ callExc' = e
    /\ exc' = e
    /\ pc' = Handler("call")
    /\ UNCHANGED <<args, script, test_function, sys_argv, sys_path,
                   sys_modules, imports, loads, videoBody, videoExc,
                   dutHeld, dutEnters, dutExits, captures, files, out,
                   sinkMade, absfilename, hook, hookInstalls, exitCode>>

\* (mutant) the finally block without sys.settrace(None)
TracingUnsetTrace_Skipped ==
    /\ pc = "tracing_finally"
    /\ pc' = "tracing_ended"
    /\ UNCHANGED <<args, script, test_function, sys_argv, sys_path,
                   sys_modules, imports, loads, exc, callOutcome, callExc,
                   videoBody, videoExc, dutHeld, dutEnters, dutExits,
                   captures, files, out, sinkMade, sink, absfilename, hook,
                   hookInstalls, frames, events, exitCode>>

\* (mutant) sys.settrace(None) after the yield, outside any finally
TracingUnsetTrace_OnlyOnReturn ==
    /\ pc = "tracing_finally"
    /\ hook' = IF exc = NoExc THEN FALSE ELSE hook
    /\ pc' = "tracing_ended"
    /\ UNCHANGED <<args, script, test_function, sys_argv, sys_path,
                   sys_modules, imports, loads, exc, callOutcome, callExc,
                   videoBody, videoExc, dutHeld, dutEnters, dutExits,
                   captures, files, out, sinkMade, sink, absfilename,
                   hookInstalls, frames, events, exitCode>>

\* tracing(): finally: sys.settrace(None) (line 159)
TracingUnsetTrace ==
    /\ pc = "tracing_finally"
    /\ hook' = FALSE
    /\ pc' = "tracing_ended"
    /\ UNCHANGED <<args, script, test_function, sys_argv, sys_path,
                   sys_modules, imports, loads, exc, callOutcome, callExc,
                   videoBody, videoExc, dutHeld, dutEnters, dutExits,
                   captures, files, out, sinkMade, sink, absfilename,
                   hookInstalls, frames, events, exitCode>>

\* tracing(): _tracer.log_test_ended() (line 160); the call may raise, and
\* what it raises replaces the condition the finally block was entered with
TracingLogEnded ==
    /\ pc = "tracing_ended"
    /\ \E ok \in BOOLEAN :
          /\ sink' = Append(sink, SinkCall("log_test_ended", <<>>, 0, ~ok))
          /\ exc' = IF ok THEN exc ELSE SinkErr
          /\ pc' = IF ok THEN "tracing_close" ELSE Handler("tracing")
    /\ UNCHANGED <<args, script, test_function, sys_argv, sys_path,
                   sys_modules, imports, loads, callOutcome, callExc,
                   videoBody, videoExc, dutHeld, dutEnters, dutExits,
                   captures, files, out, sinkMade, absfilename, hook,
                   hookInstalls, frames, events, exitCode>>

\* (mutant) _tracer.close() only when the body returned
TracingClose_OnlyOnReturn ==
    /\ pc = "tracing_close"
    /\ sink' = IF exc = NoExc THEN Append(sink, SinkCall("close", <<>>, 0, FALSE)) ELSE sink
    /\ pc' = IF exc = NoExc THEN After("tracing") ELSE Handler("tracing")
    /\ UNCHANGED <<args, script, test_function, sys_argv, sys_path,
                   sys_modules, imports, loads, exc, callOutcome, callExc,
                   videoBody, videoExc, dutHeld, dutEnters, dutExits,
                   captures, files, out, sinkMade, absfilename, hook,
                   hookInstalls, frames, events, exitCode>>

\* tracing(): _tracer.close() (line 161); the finally block ends and the
\* condition it was entered with, if any, propagates
TracingClose ==
    /\ pc = "tracing_close"
    /\ sink' = Append(sink, SinkCall("close", <<>>, 0, FALSE))
    /\ pc' = IF exc = NoExc THEN After("tracing") ELSE Handler("tracing")
    /\ UNCHANGED <<args, script, test_function, sys_argv, sys_path,
                   sys_modules, imports, loads, exc, callOutcome, callExc,
                   videoBody, videoExc, dutHeld, dutEnters, dutExits,
                   captures, files, out, sinkMade, absfilename, hook,
                   hookInstalls, frames, events, exitCode>>

\* video(): the body raised an Exception (lines 40-47): capture, swallow
\* what the capture raises, then the bare raise
VideoExcept ==
    /\ pc = "video_exit"
    /\ exc # NoExc
    /\ VideoCatches(exc)
    /\ \E env \in CaptureEnvs :
         LET r == SaveScreenshot(VideoExceptionArg(exc), SaveJpgOnRaise(args),
                                 SavePngOnRaise(args), env)
         IN  /\ captures' = Append(captures, [path |-> "raise", held |-> dutHeld, res |-> r])
             /\ files' = files \o r.writes
             /\ out' = out \o [i \in 1..Len(r.stderr) |-> SavedLine(r.stderr[i])]
             /\ exc' = BareRaise(exc, r.raised)
    /\ videoBody' = "raised"
    /\ videoExc' = exc
    /\ pc' = "dut_exit"
    /\ UNCHANGED <<args, script, test_function, sys_argv, sys_path,
                   sys_modules, imports, loads, callOutcome, callExc,
                   dutHeld, dutEnters, dutExits, sinkMade, sink,
                   absfilename, hook, hookInstalls, frames, events,
                   exitCode>>

\* video(): the body returned (lines 48-51): capture, unguarded
VideoElse ==
    /\ pc = "video_exit"
    /\ exc = NoExc
    /\ \E env \in CaptureEnvs :
         LET r == SaveScreenshot(VideoExceptionArg(exc), SaveJpgOnReturn(args),
                                 SavePngOnReturn(args), env)
         IN  /\ captures' = Append(captures, [path |-> "return", held |-> dutHeld, res |-> r])
             /\ files' = files \o r.writes
             /\ out' = out \o [i \in 1..Len(r.stderr) |-> SavedLine(r.stderr[i])]
             /\ exc' = ElseBranchRaises(r.raised)
    /\ videoBody' = "returned"
    /\ pc' = "dut_exit"
    /\ UNCHANGED <<args, script, test_function, sys_argv, sys_path,
                   sys_modules, imports, loads, callOutcome, callExc,
                   videoExc, dutHeld, dutEnters, dutExits, sinkMade, sink,
                   absfilename, hook, hookInstalls, frames, events,
                   exitCode>>

\* video(): the body raised a condition that is no Exception: neither
\* branch of the try statement runs
VideoPass ==
    /\ pc = "video_exit"
    /\ exc # NoExc
    /\ ~VideoCatches(exc)
    /\ videoBody' = "raised"
    /\ videoExc' = exc
    /\ pc' = "dut_exit"
    /\ UNCHANGED <<args, script, test_function, sys_argv, sys_path,
                   sys_modules, imports, loads, exc, callOutcome, callExc,
                   dutHeld, dutEnters, dutExits, captures, files, out,
                   sinkMade, sink, absfilename, hook, hookInstalls, frames,
                   events, exitCode>>

\* (mutant) dut.__exit__ called after the try statement, not by a with statement
DutExit_OnlyOnReturn ==
    /\ pc = "dut_exit"
    /\ dutHeld' = IF exc = NoExc THEN FALSE ELSE dutHeld
    /\ dutExits' = IF exc = NoExc THEN dutExits + 1 ELSE dutExits
    /\ pc' = IF exc = NoExc THEN After("video") ELSE Handler("video")
    /\ UNCHANGED <<args, script, test_function, sys_argv, sys_path,
                   sys_modules, imports, loads, exc, callOutcome, callExc,
                   videoBody, videoExc, dutEnters, captures, files, out,
                   sinkMade, sink, absfilename, hook, hookInstalls, frames,
                   events, exitCode>>

\* video(): the with statement of line 37 ends: dut.__exit__ and the
\* singleton's exit run, whatever leaves the block
DutExit ==
    /\ pc = "dut_exit"
    /\ dutHeld' = FALSE
    /\ dutExits' = dutExits + 1
    /\ pc' = IF exc = NoExc THEN After("video") ELSE Handler("video")
    /\ UNCHANGED <<args, script, test_function, sys_argv, sys_path,
                   sys_modules, imports, loads, exc, callOutcome, callExc,
                   videoBody, videoExc, dutEnters, captures, files, out,
                   sinkMade, sink, absfilename, hook, hookInstalls, frames,
                   events, exitCode>>

\* sane_unicode_and_exception_handling: the body completed; the program
\* ends with status 0
SaneReturn ==
    /\ pc = "sane_exit"
    /\ exc = NoExc
    /\ exitCode' = <<0>>
    /\ pc' = "exited"
    /\ UNCHANGED <<args, script, test_function, sys_argv, sys_path,
                   sys_modules, imports, loads, exc, callOutcome, callExc,
                   videoBody, videoExc, dutHeld, dutEnters, dutExits,
                   captures, files, out, sinkMade, sink, absfilename, hook,
                   hookInstalls, frames, events>>

\* sane_unicode_and_exception_handling: except Exception (lines 119-139)
SaneExcept ==
    /\ pc = "sane_exit"
    /\ exc # NoExc
    /\ SaneCatches(exc)
    /\ out' = out \o <<FailLine(script, exc), TraceBack(exc)>>
    /\ exitCode' = <<ExitCodeFor(exc)>>
    /\ pc' = "exited"
    /\ UNCHANGED <<args, script, test_function, sys_argv, sys_path,
                   sys_modules, imports, loads, exc, callOutcome, callExc,
                   videoBody, videoExc, dutHeld, dutEnters, dutExits,
                   captures, files, sinkMade, sink, absfilename, hook,
                   hookInstalls, frames, events>>

\* sane_unicode_and_exception_handling: a condition that is no Exception
\* passes through; the interpreter ends the process
SaneUncaught ==
    /\ pc = "sane_exit"
    /\ exc # NoExc
    /\ ~SaneCatches(exc)
    /\ exitCode' = <<UncaughtExit(exc)>>
    /\ pc' = "exited"
    /\ UNCHANGED <<args, script, test_function, sys_argv, sys_path,
                   sys_modules, imports, loads, exc, callOutcome, callExc,
                   videoBody, videoExc, dutHeld, dutEnters, dutExits,
                   captures, files, out, sinkMade, sink, absfilename, hook,
                   hookInstalls, frames, events>>

Next ==
    \/ SaneEnter
    \/ LoadSetArgv
    \/ LoadTestFunction
    \/ VideoEnter
    \/ TracingNewSender
    \/ TracingLogStarting
    \/ TracingSetTrace
    \/ CallInvoke
    \/ \E f \in CodeFiles(test_function) : InterpCall(f)
    \/ \E n \in Lines : InterpLine(n)
    \/ InterpReturn
    \/ CallReturn
    \/ \E e \in TestConds : CallRaise(e)
    \/ TracingUnsetTrace
    \/ TracingLogEnded
    \/ TracingClose
    \/ VideoExcept
    \/ VideoElse
    \/ VideoPass
    \/ DutExit
    \/ SaneReturn
    \/ SaneExcept
    \/ SaneUncaught

Spec == Init /\ [][Next]_vars

----------------------------------------------------------------------------
(* A resolver session: load_test_function called repeatedly in one process *)

\* the identifiers a session resolves
LoadScripts ==
    { <<"t", "test.py", "::", "test_x">>,
      <<"/", "home", "t", "test.py", "::", "test_x">>,
      <<"u", "test.py", "::", "test_x">>,
      <<"x", "test.py", "::", "test_x">>,
      <<"t", "test.py", "::", "test_x", "::", "y">>,
      <<"t", "test.txt", "::", "test_x">>,
      <<"t", "test.py", "::", "count">>,
      <<"t", "test.py", "::", "Page">>,
      <<"t", "test.py", "::", "nope">>,
      <<"t", "bad.py", "::", "test_x">>,
      <<"t", "test.py">>,
      <<"/", "home", "t", "test.py">>,
      <<"t", "gone.py">> }

LoadInit ==
    /\ pc = "resolver"
    /\ args \in [save_screenshot : {"never"}, save_thumbnail : {"never"}, args : ScriptArgs]
    /\ script = <<>>
    /\ test_function = NoTestFunction
    /\ sys_argv = <<<<"stbt-run">>>>
    /\ sys_path = <<LibDir>>
    /\ sys_modules = <<>>
    /\ imports = <<>>
    /\ loads = <<>>
    /\ exc = NoExc
    /\ callOutcome = "none"
    /\ callExc = NoExc
    /\ videoBody = "none"
    /\ videoExc = NoExc
    /\ dutHeld = FALSE
    /\ dutEnters = 0
    /\ dutExits = 0
    /\ captures = <<>>
    /\ files = <<>>
    /\ out = <<>>
    /\ sinkMade = FALSE
    /\ sink = <<>>
    /\ absfilename = <<>>
    /\ hook = FALSE
    /\ hookInstalls = 0
    /\ frames = <<>>
    /\ events = <<>>
    /\ exitCode = <<>>


\* load_test_function(s, args) (lines 67-101), one whole call; its caller
\* catches what it raises and goes on
Resolve(s) ==
    /\ pc = "resolver"
    /\ Len(loads) < MaxLoads
    /\ LET argv == Argv(s, args.args)
           r == load_test_function(s, sys_path, sys_modules)
       IN  /\ script' = s
           /\ sys_argv' = argv
           /\ sys_path' = r.path
           /\ sys_modules' = r.modules
           /\ imports' = imports \o [i \in 1..Len(r.ran) |->
                             [file |-> r.ran[i], argv |-> argv, path |-> r.path]]
           /\ test_function' = r.tf
           /\ loads' = Append(loads, [script |-> s, raised |-> r.raised, tf |-> r.tf,
                                      before |-> sys_path, after |-> r.path,
                                      ran |-> r.ran])
    /\ UNCHANGED <<pc, args, exc, callOutcome, callExc, videoBody,
                   videoExc, dutHeld, dutEnters, dutExits, captures, files,
                   out, sinkMade, sink, absfilename, hook, hookInstalls,
                   frames, events, exitCode>>

LoadNext == \E s \in LoadScripts : Resolve(s)

LoadSpec == LoadInit /\ [][LoadNext]_vars


----------------------------------------------------------------------------
(* Vocabulary of the claims *)

\* the process has ended
Exited == pc = "exited"
\* tracing() was entered and control has left it
TracingLeft == sinkMade /\ pc \in {"video_exit", "dut_exit", "sane_exit", "exited"}
\* video() was entered and control has left it
VideoLeft == dutEnters = 1 /\ pc \in {"sane_exit", "exited"}
\* control is past the try statement of video()
VideoHandled == pc \in {"dut_exit", "sane_exit", "exited"} /\ videoBody # "none"

\* the one capture of the run raised
CaptureRaised == Len(captures) = 1 /\ captures[1].res.raised # NoExc
CaptureQuiet == \A i \in 1..Len(captures) : captures[i].res.raised = NoExc

CountOp(op) == Cardinality({i \in 1..Len(sink) : sink[i].op = op})
CountFile(name) == Cardinality({i \in 1..Len(files) : files[i].name = name})
CountOut(kind) == Cardinality({i \in 1..Len(out) : out[i].kind = kind})

\* the classes of the model that are assertion-style or domain test failures
FailureClasses == {"AssertionError", "UITestFailure", "MatchTimeout"}
\* the classes of the model outside the Exception hierarchy
NonExceptionClasses == {"SystemExit", "KeyboardInterrupt"}

\* the callable ran and its own outcome is what reaches the classifier: no
\* part of the harness (loader, sink, capture) added a failure of its own
CallDecides ==
    /\ callOutcome # "none"
    /\ exc = callExc
    /\ callOutcome = "raised" => callExc \in TestConds

----------------------------------------------------------------------------
(* C1 *)

\* C1 as stated: the exit code follows from the callable's outcome alone, 0
\* when it returned, 1 when it raised an AssertionError or UITestFailure, 2
\* when it raised anything else, and it is never outside {0, 1, 2}.  Read in
\* the claim's favour: only the runs in which the callable's outcome is what
\* reaches the classifier (the harness added no failure of its own).
C1_Original ==
    Exited /\ CallDecides =>
        /\ exitCode[1] \in {0, 1, 2}
        /\ callOutcome = "returned" => exitCode = <<0>>
        /\ callOutcome = "raised" /\ callExc.cls \in FailureClasses => exitCode = <<1>>
        /\ callOutcome = "raised" /\ callExc.cls \notin FailureClasses => exitCode = <<2>>

\* C1 (amended): the exit code follows from the condition that reaches
\* sane_unicode_and_exception_handling: 0 when its body completed, 1 for an
\* AssertionError or UITestFailure (or subclass), 2 for any other Exception;
\* a condition outside the Exception hierarchy is not classified and the
\* process ends with the interpreter's status for it (SystemExit(n): n).
C1_ExitCode ==
    /\ ~Exited => exitCode = <<>>
    /\ Exited =>
        /\ exc = NoExc => exitCode = <<0>>
        /\ exc.cls \in FailureClasses => exitCode = <<1>>
        /\ exc # NoExc /\ exc.cls \notin FailureClasses \cup NonExceptionClasses
              => exitCode = <<2>>
        /\ exc.cls = "SystemExit" => exitCode = <<exc.code>>

\* a domain failure (a subclass of UITestFailure) raised by the callable
\* reached the classifier and the process ended with status 1
C1_Witness ==
    Exited /\ callExc.cls = "MatchTimeout" /\ exc = callExc /\ exitCode = <<1>>

----------------------------------------------------------------------------
(* C2 *)

\* C2 as stated: when the callable raises E inside video() and the capture
\* itself raises, the condition that leaves video() is E, unchanged, and the
\* exit code is the one E alone produces.
C2_Original ==
    (VideoHandled /\ callExc \in TestConds /\ videoExc = callExc /\ CaptureRaised) =>
        /\ exc = callExc
        /\ Exited /\ callExc.cls \in FailureClasses => exitCode = <<1>>

----------------------------------------------------------------------------
(* C3 *)

\* C3 as stated: when the callable returns normally and the capture of the
\* normal-return path raises, nothing propagates out of video() and the run
\* ends with exit code 0.
C3_Original ==
    (VideoHandled /\ callOutcome = "returned" /\ videoBody = "returned" /\ CaptureRaised) =>
        /\ exc = NoExc
        /\ Exited => exitCode = <<0>>

\* C3 (amended): on the normal-return path a capture failure is not
\* swallowed: the condition the capture raised propagates out of video() and
\* is classified like any other condition (exit code 2 for an error that is
\* no test failure), with a FAIL line.
C3_ReturnPathPropagates ==
    (VideoHandled /\ callOutcome = "returned" /\ videoBody = "returned" /\ CaptureRaised) =>
        /\ exc = captures[1].res.raised
        /\ exc.origin = "capture"
        /\ Exited => exitCode = <<2>> /\ CountOut("FAIL") = 1

\* the callable returned, save_screenshot is always, the capture raised and
\* the process has ended
C3_Witness ==
    /\ Exited /\ callOutcome = "returned" /\ videoBody = "returned"
    /\ args.save_screenshot = "always" /\ CaptureRaised

----------------------------------------------------------------------------
(* C4 *)

\* whether the run of video() calls for the artifact governed by option opt,
\* as C4 states it: from the option and the callable's outcome
WantedAsStated(opt) ==
    opt = "always" \/ (opt = "on_failure" /\ callOutcome = "raised")

\* C4 as stated: each artifact is written exactly once when its option is
\* always, or on_failure and the callable raised, and zero times otherwise,
\* for every outcome of the callable.  Read in the claim's favour: only the
\* runs in which the sink and the capture did not fail.
C4_Original ==
    VideoLeft /\ CallDecides /\ CaptureQuiet =>
        /\ CountFile("screenshot.png") = IF WantedAsStated(args.save_screenshot) THEN 1 ELSE 0
        /\ CountFile("thumbnail.jpg") = IF WantedAsStated(args.save_thumbnail) THEN 1 ELSE 0

\* whether video() attempts the artifact governed by option opt
Wanted(opt) ==
    \/ videoBody = "returned" /\ opt = "always"
    \/ videoBody = "raised" /\ videoExc.cls \notin NonExceptionClasses /\ opt # "never"

\* C4 (amended): each artifact is written at most once; it is not written
\* when its option is never, when its option is on_failure and the body of
\* video() returned, or when the body ended with a condition outside the
\* Exception hierarchy; otherwise (always, or on_failure and the body raised
\* an Exception) it is written exactly once unless the capture itself
\* raised.  With no capture failure the other option plays no part.
C4_Artifacts ==
    /\ CountFile("screenshot.png") <= 1
    /\ CountFile("thumbnail.jpg") <= 1
    /\ VideoLeft =>
        /\ ~Wanted(args.save_screenshot) => CountFile("screenshot.png") = 0
        /\ ~Wanted(args.save_thumbnail) => CountFile("thumbnail.jpg") = 0
        /\ Wanted(args.save_screenshot) /\ CaptureQuiet => CountFile("screenshot.png") = 1
        /\ Wanted(args.save_thumbnail) /\ CaptureQuiet => CountFile("thumbnail.jpg") = 1

\* the callable raised with save_screenshot=on_failure, save_thumbnail=never:
\* the screenshot was written once and no thumbnail
C4_Witness ==
    /\ Exited /\ callOutcome = "raised" /\ videoExc = callExc
    /\ args.save_screenshot = "on_failure" /\ args.save_thumbnail = "never"
    /\ CountFile("screenshot.png") = 1 /\ CountFile("thumbnail.jpg") = 0

----------------------------------------------------------------------------
(* C5 *)

\* C5: the DUT scope is entered before the callable is invoked, it is exited
\* exactly once on every path out of video() (callable returned, callable
\* raised, capture raised), and every capture happens while it is held.
C5_DutScope ==
    /\ dutExits <= dutEnters /\ dutEnters <= 1
    /\ dutHeld <=> (dutEnters = 1 /\ dutExits = 0)
    /\ (pc \in {"call", "running"} \/ callOutcome # "none") => dutEnters = 1
    /\ pc \in {"call", "running", "video_exit", "dut_exit"} => dutHeld
    /\ VideoLeft => dutExits = 1
    /\ \A i \in 1..Len(captures) : captures[i].held

\* the callable raised, the capture raised too, and the scope was exited once
C5_Witness ==
    /\ Exited /\ callOutcome = "raised" /\ CaptureRaised
    /\ dutExits = 1 /\ ~dutHeld

----------------------------------------------------------------------------
(* C6 *)

Stage(op) ==
    CASE op = "log_test_starting" -> 1
      [] op = "log_current_line"  -> 2
      [] op = "log_test_ended"    -> 3
      [] op = "close"             -> 4

\* the order of the sink's calls among themselves and against the hook
SinkOrder ==
    \A i \in 1..Len(sink) :
        LET c == sink[i]
            s == Stage(c.op)
        IN  /\ (i = 1) <=> (c.op = "log_test_starting")
            /\ i > 1 => LET p == sink[i - 1]
                             q == Stage(p.op)
                         IN  /\ s >= q
                             /\ s = q => c.op = "log_current_line"
                             /\ ~p.raised
                             /\ c.op = "close" => p.op = "log_test_ended"
            /\ c.op = "log_test_starting" => ~c.hooked /\ c.installs = 0
            /\ c.op = "log_current_line" => c.hooked
            /\ c.op = "log_test_ended" => ~c.hooked /\ c.installs = 1

----------------------------------------------------------------------------
(* C7 *)

----------------------------------------------------------------------------
(* C8 *)

IsTestLine(e) == e.kind = "line" /\ e.file = absfilename
IsLineCall(c) == c.op = "log_current_line"

\* C8: the (filename, lineno) pairs forwarded to log_current_line are exactly
\* the "line" events of the test file, in order; this includes the lines that
\* follow a call into, and the return from, a frame of another file.
C8_LineTrace ==
    LET want == SelectSeq(events, IsTestLine)
        got  == SelectSeq(sink, IsLineCall)
    IN  /\ Len(got) = Len(want)
        /\ \A i \in 1..Len(got) :
              got[i].file = want[i].file /\ got[i].line = want[i].line

\* a frame of the library file was entered and left, and a later line of the
\* test file was forwarded
C8_Witness ==
    \E i, j, k \in 1..Len(events) :
        /\ i < j /\ j < k
        /\ events[i].kind = "call" /\ events[i].file = LibFile
        /\ events[j].kind = "return" /\ events[j].file = LibFile
        /\ events[k].kind = "line" /\ events[k].file = absfilename
        /\ CountOp("log_current_line") >= 1

----------------------------------------------------------------------------
(* C9 *)

----------------------------------------------------------------------------
(* C10 *)

\* C10 as stated: when the callable raises, exactly one FAIL line is written,
\* to the error stream, followed by the stack trace on the error stream;
\* when it returns, neither is written.  Read in the claim's favour: only the
\* runs in which the callable's outcome is what reaches the classifier, and
\* "error condition" as a condition of the Exception hierarchy.
C10_Original ==
    Exited /\ CallDecides /\ callExc.cls \notin NonExceptionClasses =>
        IF callOutcome = "raised"
        THEN /\ CountOut("FAIL") = 1
             /\ Len(out) >= 2
             /\ out[Len(out) - 1].kind = "FAIL" /\ out[Len(out) - 1].stream = "stderr"
             /\ out[Len(out)].kind = "traceback" /\ out[Len(out)].stream = "stderr"
        ELSE CountOut("FAIL") = 0 /\ CountOut("traceback") = 0

\* C10 (amended): when a condition of the Exception hierarchy reaches
\* sane_unicode_and_exception_handling, exactly one FAIL line naming the
\* script and the condition's type is written, to standard output, followed
\* by the stack trace on the error stream, before the process exits; when the
\* body completes normally or ends with a condition outside the Exception
\* hierarchy, no FAIL line and no trace are written.
C10_FailLine ==
    /\ ~Exited => CountOut("FAIL") = 0 /\ CountOut("traceback") = 0
    /\ Exited =>
        IF exc # NoExc /\ exc.cls \notin NonExceptionClasses
        THEN /\ CountOut("FAIL") = 1 /\ CountOut("traceback") = 1
             /\ out[Len(out) - 1].kind = "FAIL"
             /\ out[Len(out) - 1].stream = "stdout"
             /\ out[Len(out) - 1].script = script
             /\ out[Len(out) - 1].cls = exc.cls
             /\ out[Len(out)].kind = "traceback"
             /\ out[Len(out)].stream = "stderr"
             /\ out[Len(out)].cls = exc.cls
        ELSE CountOut("FAIL") = 0 /\ CountOut("traceback") = 0

\* an assertion raised by the callable reached the classifier and was reported
C10_Witness ==
    /\ Exited /\ callExc.cls = "AssertionError" /\ exc = callExc
    /\ CountOut("FAIL") = 1


----------------------------------------------------------------------------
(* Vocabulary of the claims about load_test_function *)

\* the two parts of a `path::function` identifier, read off the identifier
PathPart(s) ==
    IF \E i \in 1..Len(s) : s[i] = "::"
    THEN SubSeq(s, 1, (CHOOSE i \in 1..Len(s) : s[i] = "::" /\ \A j \in 1..(i - 1) : s[j] # "::") - 1)
    ELSE s
FuncPart(s) ==
    IF \E i \in 1..Len(s) : s[i] = "::"
    THEN SubSeq(s, (CHOOSE i \in 1..Len(s) : s[i] = "::" /\ \A j \in 1..(i - 1) : s[j] # "::") + 1, Len(s))
    ELSE <<>>
IsFunctionForm(s) == \E i \in 1..Len(s) : s[i] = "::"
HasPyExt(s) == splitext(basename(PathPart(s)))[2] = ".py"

\* the function names that no file of the model defines as a function
NotAFunction(name) == \A f \in FS : AttrKind(f, name) # "function"

\* the load returned a TestFunction / failed
Returned(L) == L.raised = NoExc /\ L.tf # NoTestFunction
Failed(L) == L.raised # NoExc /\ L.tf = NoTestFunction

\* the structural load errors: InvalidModule is an ImportError,
\* AttributeNotFound an AttributeError
LoadErrorClasses == {"ImportError", "AttributeError"}

----------------------------------------------------------------------------
(* C11 *)

\* C11 as stated: a `path::function` load either returns one TestFunction or
\* fails with a LoadError-class condition (InvalidModule, AttributeNotFound).
C11_Original ==
    \A i \in 1..Len(loads) :
        IsFunctionForm(loads[i].script) =>
            \/ Returned(loads[i])
            \/ Failed(loads[i]) /\ loads[i].raised.cls \in LoadErrorClasses

\* C11 (amended): a `path::function` load splits on the first `::` and either
\* returns one TestFunction whose call is a function of the module, or fails:
\* with ImportError, before anything is imported or the search path changed,
\* when the path has no .py extension; with ImportError when no module of
\* that name is found; with AttributeError when the named attribute is
\* missing or is no function; and with whatever the module's top-level code
\* raised, unmodified, when the import itself fails.
C11_Load ==
    \A i \in 1..Len(loads) :
        LET L == loads[i] IN
        IsFunctionForm(L.script) =>
            /\ Returned(L) \/ Failed(L)
            /\ Failed(L) => L.raised.cls \in LoadErrorClasses \/ L.raised = ModuleErr
            /\ L.raised = ModuleErr <=> \E k \in 1..Len(L.ran) : ImportRaises(L.ran[k])
            /\ ~HasPyExt(L.script) =>
                  L.raised.cls = "ImportError" /\ L.after = L.before /\ L.ran = <<>>
            /\ (HasPyExt(L.script) /\ NotAFunction(FuncPart(L.script)) /\ L.raised # ModuleErr) =>
                  L.raised.cls \in LoadErrorClasses
            /\ (HasPyExt(L.script) /\ NotAFunction(FuncPart(L.script))
                  /\ abspath(PathPart(L.script)) \in FS
                  /\ ~ImportRaises(abspath(PathPart(L.script)))) =>
                  L.raised.cls = "AttributeError"
            /\ Returned(L) =>
                  /\ L.tf.script = L.script
                  /\ L.tf.funcname = FuncPart(L.script)
                  /\ L.tf.call.kind = "function"
                  /\ AttrKind(L.tf.call.file, L.tf.funcname) = "function"

\* one session in which a `path::function` load returned, a path without
\* .py was rejected and an attribute that is an integer was rejected
C11_Witness ==
    \E i, j, k \in 1..Len(loads) :
        /\ IsFunctionForm(loads[i].script) /\ Returned(loads[i])
        /\ ~HasPyExt(loads[j].script) /\ loads[j].raised.cls = "ImportError"
        /\ FuncPart(loads[k].script) = <<"count">> /\ loads[k].raised.cls = "AttributeError"

----------------------------------------------------------------------------
(* C12 *)

\* C12 as stated: the filename of every TestFunction returned is the absolute
\* path of the source file, for both identifier forms and for relative and
\* absolute paths; funcname is the given name (empty for a whole file, with
\* line 1); script is the identifier as given.
C12_Original ==
    \A i \in 1..Len(loads) :
        LET L == loads[i] IN
        Returned(L) =>
            /\ L.tf.filename = abspath(PathPart(L.script))
            /\ L.tf.funcname = FuncPart(L.script)
            /\ L.tf.script = L.script
            /\ ~IsFunctionForm(L.script) => L.tf.line = 1

----------------------------------------------------------------------------
(* C14 *)

----------------------------------------------------------------------------
(* C13 *)

\* the source file the identifier of the run refers to exists
ScriptExists == abspath(PathPart(script)) \in FS

\* C13 as stated: every TestFunction returned names an existing source file,
\* so a reference to a missing file fails in load_test_function: the DUT
\* scope is never acquired, log_test_starting is never called, no capture is
\* attempted, and nothing is raised from inside the callable.
C13_Original ==
    /\ test_function # NoTestFunction => abspath(test_function.filename) \in FS
    /\ ~ScriptExists =>
          /\ dutEnters = 0
          /\ sink = <<>>
          /\ captures = <<>>
          /\ callOutcome = "none"

----------------------------------------------------------------------------
(* C15 *)

\* C15: from the first statement of load_test_function on, sys.argv is the
\* identifier followed by the arguments, in order: it is what the top-level
\* code of an imported module sees, what every statement of the callable
\* sees, and what is left after the run.
C15_Argv ==
    LET want == <<script>> \o args.args IN
    /\ pc \notin {"sane_enter", "load"} => sys_argv = want
    /\ \A i \in 1..Len(imports) : imports[i].argv = want
    /\ events # <<>> => sys_argv = want
    /\ events # <<>> /\ ~IsFunctionForm(script) =>
          sys_argv[1] = script /\ Tail(sys_argv) = args.args

\* a whole-file test ran to its end with the argument vector installed
C15_Witness ==
    /\ Exited /\ ~IsFunctionForm(script) /\ callOutcome = "returned"
    /\ Len(events) >= 2
    /\ sys_argv = <<script>> \o args.args

----------------------------------------------------------------------------
(* C16 *)

\* C16 as stated: when the callable raises a condition that carries a
\* screenshot and a capture is made, the frame written is that screenshot
\* and the DUT is asked for no frame.  Read in the claim's favour: only the
\* captures that did not fail.
C16_Original ==
    (/\ VideoHandled /\ videoBody = "raised"
     /\ callExc \in TestConds /\ videoExc = callExc /\ callExc.shot # "none"
     /\ Len(captures) = 1 /\ captures[1].res.attempted /\ CaptureQuiet) =>
        /\ captures[1].res.queried = <<>>
        /\ captures[1].res.frame = callExc.shot
        /\ \A i \in 1..Len(files) : files[i].frame = callExc.shot

----------------------------------------------------------------------------
(* C17 *)

\* the text of a condition's message: nothing for a condition raised without
\* an argument, otherwise the text of the argument ("0" for the number 0)
MessageText(e) == IF e.t = "none" THEN "" ELSE e.v

\* C17: the message of the FAIL line is the condition's own message text
\* whenever that text is not empty, also for the falsy message 0; the source
\* text of the failing line replaces it exactly when the text is empty and
\* the condition is an AssertionError; any other condition with an empty
\* message is reported with an empty message.
C17_Message ==
    (Exited /\ exc # NoExc /\ exc.cls \notin NonExceptionClasses) =>
        /\ CountOut("FAIL") = 1
        /\ \A i \in 1..Len(out) :
              out[i].kind = "FAIL" =>
                  /\ MessageText(exc) # "" => out[i].msg = MessageText(exc)
                  /\ out[i].msg = "assert x == 1"
                        <=> (MessageText(exc) = "" /\ exc.cls = "AssertionError")
                  /\ MessageText(exc) = "" /\ exc.cls # "AssertionError" => out[i].msg = ""

\* AssertionError(0) raised by the callable was reported with the message 0
C17_Witness ==
    /\ Exited /\ exc = callExc /\ callExc.cls = "AssertionError" /\ callExc.t = "int"
    /\ \E i \in 1..Len(out) : out[i].kind = "FAIL" /\ out[i].msg = "0"

----------------------------------------------------------------------------
(* C18 *)

----------------------------------------------------------------------------
(* C19 *)

\* what each invocation of _save_screenshot did, whatever the path: no frame
\* source is asked when neither artifact is to be saved; get_frame is asked
\* at most once, last, and never when the last-used frame was there; the
\* artifacts written hold the one frame obtained, screenshot.png first.
CaptureDiscipline ==
    \A i \in 1..Len(captures) :
        LET r == captures[i].res
            wantJpg == IF captures[i].path = "raise" THEN args.save_thumbnail # "never"
                       ELSE args.save_thumbnail = "always"
            wantPng == IF captures[i].path = "raise" THEN args.save_screenshot # "never"
                       ELSE args.save_screenshot = "always"
        IN  /\ r.attempted <=> (wantJpg \/ wantPng)
            /\ ~(wantJpg \/ wantPng) => r.queried = <<>> /\ r.writes = <<>> /\ r.frame = "none"
            /\ r.queried \in {<<>>, <<"last_used_frame">>, <<"get_frame">>,
                              <<"last_used_frame", "get_frame">>}
            /\ r.frame = "F_last" => r.queried = <<"last_used_frame">>
            /\ r.frame = "F_fresh" => r.queried[Len(r.queried)] = "get_frame"
            /\ \A k \in 1..Len(r.writes) : r.writes[k].frame = r.frame /\ r.frame # "none"
            /\ Len(r.writes) <= 2
            /\ Len(r.writes) = 2 =>
                  r.writes[1].name = "screenshot.png" /\ r.writes[2].name = "thumbnail.jpg"
            /\ (wantJpg /\ wantPng /\ r.raised = NoExc) => Len(r.writes) = 2
            /\ (Len(r.writes) = 1 /\ r.raised = NoExc) =>
                  r.writes[1].name = (IF wantPng THEN "screenshot.png" ELSE "thumbnail.jpg")

\* C19 as stated: every run of video() invokes _save_screenshot exactly once.
C19_Original ==
    /\ Len(captures) <= 1
    /\ VideoHandled => Len(captures) = 1
    /\ CaptureDiscipline

\* C19 (amended): a run of video() invokes _save_screenshot at most once:
\* once, on the normal-return path or on the raise path, when the body
\* returned or raised a condition of the Exception hierarchy, and not at all
\* when the body ended with a condition outside it; each invocation follows
\* the discipline above.
C19_Captures ==
    /\ Len(captures) <= 1
    /\ VideoHandled =>
          /\ Len(captures) = (IF videoBody = "raised" /\ videoExc.cls \in NonExceptionClasses
                              THEN 0 ELSE 1)
          /\ Len(captures) = 1 =>
                captures[1].path = (IF videoBody = "raised" THEN "raise" ELSE "return")
    /\ ~VideoHandled => captures = <<>>
    /\ CaptureDiscipline

\* both artifacts were saved from a fresh frame after the last-used frame
\* was found missing
C19_Witness ==
    /\ VideoHandled /\ Len(captures) = 1
    /\ captures[1].res.queried = <<"last_used_frame", "get_frame">>
    /\ Len(captures[1].res.writes) = 2
    /\ Len(files) = 2 /\ files[1].frame = "F_fresh" /\ files[2].frame = "F_fresh"

----------------------------------------------------------------------------
(* C20 *)

\* C20: a `path::function` load prepends the absolute path of the script's
\* directory to sys.path at load time, unless the path is rejected for its
\* extension, and calling the function adds nothing; a whole-file load leaves
\* sys.path as it was and the directory is prepended when the callable is
\* invoked, before the first statement of the file runs.  Each prepend adds
\* one entry in front and keeps the entries that were there, in order.
C20_SearchPath ==
    LET before == <<LibDir>>
        dir == abspath(dirname(PathPart(script)))
        loaded == pc \notin {"sane_enter", "load", "load_resolve"}
        invoked == events # <<>> \/ callOutcome # "none"
    IN  /\ ~loaded => sys_path = before
        /\ loaded /\ IsFunctionForm(script) =>
              sys_path = (IF HasPyExt(script) THEN <<dir>> \o before ELSE before)
        /\ loaded /\ ~IsFunctionForm(script) =>
              sys_path = (IF invoked THEN <<dir>> \o before ELSE before)
        /\ \A i \in 1..Len(imports) : imports[i].path = <<dir>> \o before
        /\ events # <<>> => sys_path = <<dir>> \o before

\* a whole-file test ran: its directory was put in front of the search path
C20_Witness ==
    /\ ~IsFunctionForm(script) /\ Len(events) >= 2 /\ callOutcome = "returned"
    /\ sys_path = <<Cwd \o <<"t">>, LibDir>>
=============================================================================
